---- MODULE Spec2Model ----
(***************************************************************************)
(* Model of the two maintenance scripts of contracts-project:              *)
(*   cleanup.py   removes duplicated trailing userN.address arguments      *)
(*   fix_test.py  appends a missing trailing userN.address argument        *)
(* Both read test/SimpleDEX.test.js, rewrite the text with regular         *)
(* expressions and literal replacements, and write the file back.          *)
(*                                                                         *)
(* Text is a sequence of tokens.  Each token stands for a fixed string:    *)
(*   PC1  pool.connect(user1).      PC2  pool.connect(user2).              *)
(*   ADDL addLiquidity(             REML removeLiquidity(                  *)
(*   FN   foo(                      RP   )                                 *)
(*   C    ,      SEMI ;      SP one space   NL line break   IND 8 spaces   *)
(*   U1A  user1.address             U2A  user2.address                     *)
(*   ZERO 0   LIQ LIQUIDITY_AMOUNT  DEADLINE deadline  LPB lpBalance       *)
(*   PASTD pastDeadline   PLUS +   ONEN 1n   DOT .to                       *)
(* Every literal of the regular expressions and of the replaced strings    *)
(* is a whole number of tokens, so matching on tokens is matching on the   *)
(* characters of the text the tokens spell.                                *)
(***************************************************************************)
EXTENDS Integers, Sequences, FiniteSets, TLC

VARIABLES file, orig, pre, hist, script, pc, content, stdout, err, reads, writes, passes

vars == <<file, orig, pre, hist, script, pc, content, stdout, err, reads, writes, passes>>

(* bounds *)
MaxArgs == 6
MaxRuns == 2

----------------------------------------------------------------------------
(* character classes and scanning helpers of the regular expressions *)

Ws == {"SP", "NL", "IND"}

Users == {"user1", "user2"}

Addr(u) == IF u = "user1" THEN "U1A" ELSE "U2A"

Recv(u) == IF u = "user1" THEN "PC1" ELSE "PC2"

\* \s* : first index >= i that holds no whitespace token (Len(t)+1 at the end)
RECURSIVE SkipWs(_, _)
SkipWs(t, i) ==
    IF i <= Len(t) /\ t[i] \in Ws THEN SkipWs(t, i + 1) ELSE i

\* \s*\n\s* : the whitespace run t[i..j-1] holds a line break
HasNL(t, i, j) == \E k \in i..(j - 1) : t[k] = "NL"

\* first index >= i holding token x, 0 when there is none
RECURSIVE NextTok(_, _, _)
NextTok(t, i, x) ==
    IF i > Len(t) THEN 0
    ELSE IF t[i] = x THEN i
    ELSE NextTok(t, i + 1, x)

\* n slots "\s*[^,]+," starting at s: index after the n-th comma, 0 on failure.
\* [^,]+ needs one character at least and cannot cross a comma.
RECURSIVE SlotsEnd(_, _, _)
SlotsEnd(t, s, n) ==
    IF n = 0 THEN s
    ELSE LET c == NextTok(t, s, "C")
         IN  IF c > s THEN SlotsEnd(t, c + 1, n - 1) ELSE 0

\* head "pool\.connect\((user[12])\)\.<method>\(" followed by n comma slots and
\* the last slot "\s*[^)]+" and "(\s*\))": index of the closing parenthesis
CallEnd(t, i, meth, n) ==
    IF i + 1 <= Len(t) /\ t[i] \in {"PC1", "PC2"} /\ t[i + 1] = meth
    THEN LET s == SlotsEnd(t, i + 2, n)
         IN  IF s = 0 THEN 0
             ELSE LET r == NextTok(t, s, "RP")
                  IN  IF r > s THEN r ELSE 0
    ELSE 0

\* ",\s*\n\s*userN\.address\);" at i: index of the ';'
TrailEnd(t, i, a) ==
    IF t[i] = "C"
    THEN LET j == SkipWs(t, i + 1)
         IN  IF /\ j + 2 <= Len(t)
                /\ HasNL(t, i + 1, j)
                /\ t[j] = a /\ t[j + 1] = "RP" /\ t[j + 2] = "SEMI"
             THEN j + 2 ELSE 0
    ELSE 0

\* DupEnd with the pattern ",\s*userN\.address, *userN\.address\)": the line
\* break between the two addresses is not matched
DupEnd_NoBreak(t, i, a) ==
    IF t[i] = "C"
    THEN LET j == SkipWs(t, i + 1)
         IN  IF j + 1 <= Len(t) /\ t[j] = a /\ t[j + 1] = "C"
             THEN LET k == SkipWs(t, j + 2)
                  IN  IF /\ k + 1 <= Len(t)
                         /\ ~HasNL(t, j + 2, k)
                         /\ t[k] = a /\ t[k + 1] = "RP"
                      THEN k + 1 ELSE 0
             ELSE 0
    ELSE 0

\* ",\s*userN\.address,\s*\n\s*userN\.address\)" at i: index of the ')'
DupEnd(t, i, a) ==
    IF t[i] = "C"
    THEN LET j == SkipWs(t, i + 1)
         IN  IF j + 1 <= Len(t) /\ t[j] = a /\ t[j + 1] = "C"
             THEN LET k == SkipWs(t, j + 2)
                  IN  IF /\ k + 1 <= Len(t)
                         /\ HasNL(t, j + 2, k)
                         /\ t[k] = a /\ t[k + 1] = "RP"
                      THEN k + 1 ELSE 0
             ELSE 0
    ELSE 0

\* the compiled patterns, by name; the last index of the match at i, 0 for none
MatchEnd(p, t, i) ==
    CASE p = "trail1"   -> TrailEnd(t, i, "U1A")
      [] p = "trail2"   -> TrailEnd(t, i, "U2A")
      [] p = "dup1"     -> DupEnd(t, i, "U1A")
      [] p = "dup2"     -> DupEnd(t, i, "U2A")
      [] p = "pattern"  -> CallEnd(t, i, "ADDL", 4)
      [] p = "pattern2" -> CallEnd(t, i, "REML", 3)

\* replace_func without match.group(3): the closing parenthesis is lost
replace_func_NoCloser(t, i, e) ==
    LET user == IF t[i] = "PC1" THEN "user1" ELSE "user2"
    IN  SubSeq(t, i, e - 1) \o <<"C", "NL", "IND", Addr(user)>>

\* match.group(1) + ',\n        ' + user + '.address' + match.group(3)
replace_func(t, i, e) ==
    LET user == IF t[i] = "PC1" THEN "user1" ELSE "user2"
    IN  SubSeq(t, i, e - 1) \o <<"C", "NL", "IND", Addr(user)>> \o <<t[e]>>

\* Repl with the replacement ',user1.address)' of the third re.sub: no space
Repl_NoSpace(p, t, i, e) ==
    CASE p \in {"trail1", "trail2"} -> <<"RP", "SEMI">>
      [] p = "dup1"                 -> <<"C", "U1A", "RP">>
      [] p = "dup2"                 -> <<"C", "SP", "U2A", "RP">>
      [] p \in {"pattern", "pattern2"} -> replace_func(t, i, e)

\* the replacement of the match t[i..e]
Repl(p, t, i, e) ==
    CASE p \in {"trail1", "trail2"} -> <<"RP", "SEMI">>
      [] p = "dup1"                 -> <<"C", "SP", "U1A", "RP">>
      [] p = "dup2"                 -> <<"C", "SP", "U2A", "RP">>
      [] p \in {"pattern", "pattern2"} -> replace_func(t, i, e)

\* re.sub: leftmost matches, left to right, not overlapping
RECURSIVE Scan(_, _, _)
Scan(p, t, i) ==
    IF i > Len(t) THEN <<>>
    ELSE LET e == MatchEnd(p, t, i)
         IN  IF e > 0 THEN Repl(p, t, i, e) \o Scan(p, t, e + 1)
             ELSE <<t[i]>> \o Scan(p, t, i + 1)

ReSub(p, t) == Scan(p, t, 1)

\* str.replace: every occurrence of old, left to right, not overlapping
OccursAt(t, i, old) ==
    /\ i + Len(old) - 1 <= Len(t)
    /\ SubSeq(t, i, i + Len(old) - 1) = old

RECURSIVE ReplaceFrom(_, _, _, _)
ReplaceFrom(t, i, old, new) ==
    IF i > Len(t) THEN <<>>
    ELSE IF OccursAt(t, i, old)
         THEN new \o ReplaceFrom(t, i + Len(old), old, new)
         ELSE <<t[i]>> \o ReplaceFrom(t, i + 1, old, new)

Replace(t, old, new) == ReplaceFrom(t, 1, old, new)

\* the literals of cleanup.py
DupTail == <<"C", "NL", "IND", "U1A", "RP">>

Good1 == <<"PC1", "ADDL", "ZERO", "C", "SP", "LIQ", "C", "SP", "ZERO", "C", "SP",
           "ZERO", "C", "SP", "DEADLINE", "C", "SP", "U1A", "RP">>

Good2 == <<"REML", "LPB", "C", "SP", "ZERO", "C", "SP", "ZERO", "C", "SP",
           "PASTD", "C", "SP", "U1A", "RP">>

Good3 == <<"REML", "LPB", "SP", "PLUS", "SP", "ONEN", "C", "SP", "ZERO", "C", "SP",
           "ZERO", "C", "SP", "DEADLINE", "C", "SP", "U1A", "RP">>

Bad(good) == SubSeq(good, 1, Len(good) - 1) \o DupTail

Bad1 == Bad(Good1)

Bad2 == Bad(Good2)

Bad3 == Bad(Good3)

\* the passes of the two scripts, in source order
CleanupPasses == <<"trail1", "trail2", "dup1", "dup2", "rep1", "rep2", "rep3">>

FixTestPasses == <<"pattern", "pattern2">>

PassesOf(s) == IF s = "cleanup" THEN CleanupPasses ELSE FixTestPasses

ApplyPass(p, t) ==
    CASE p = "rep1" -> Replace(t, Bad1, Good1)
      [] p = "rep2" -> Replace(t, Bad2, Good2)
      [] p = "rep3" -> Replace(t, Bad3, Good3)
      [] OTHER      -> ReSub(p, t)

RECURSIVE ApplyAll(_, _)
ApplyAll(ps, t) ==
    IF ps = <<>> THEN t ELSE ApplyAll(Tail(ps), ApplyPass(Head(ps), t))

Cleanup(t) == ApplyAll(CleanupPasses, t)

FixTest(t) == ApplyAll(FixTestPasses, t)

----------------------------------------------------------------------------
(* the contents test/SimpleDEX.test.js may have before the first run *)

RECURSIVE Plain(_)
Plain(n) ==
    IF n = 0 THEN <<>>
    ELSE IF n = 1 THEN <<"DEADLINE">>
    ELSE Plain(n - 1) \o <<"C", "SP", "DEADLINE">>

\* the last arguments of a call, each with the comma that precedes it
Tails ==
    {<<>>, <<"C", "SP", "FN", "DEADLINE", "RP">>}
    \cup UNION {{<<"C", "SP", a>>,
                 <<"C", "NL", "IND", a>>,
                 <<"C", "SP", a, "C", "NL", "IND", a>>} : a \in {"U1A", "U2A"}}

Follows == {<<"SEMI">>, <<"DOT">>}

Args(n, tail) ==
    IF n = 0 THEN SubSeq(tail, SkipWs(tail, 2), Len(tail)) ELSE Plain(n) \o tail

Call(u, meth, n, tail, follow) ==
    <<Recv(u), meth>> \o Args(n, tail) \o <<"RP">> \o follow

OneCall ==
    {Call(u, meth, n, tail, follow) :
        u \in Users, meth \in {"ADDL", "REML", "FN"}, n \in 0..MaxArgs,
        tail \in Tails, follow \in Follows}

\* a call with too few arguments followed by a second call
TwoCalls ==
    {Call(u, meth, 2, <<>>, <<"SEMI", "NL">>) \o Call(v, meth2, n, <<>>, <<"SEMI">>) :
        u \in Users, v \in Users, meth \in {"ADDL", "REML"},
        meth2 \in {"ADDL", "FN"}, n \in {3, 5}}

\* the calls cleanup.py names literally, alone or before another call
WithLiteral ==
    {pfx \o bad \o follow \o sfx :
        pfx \in {<<>>, <<"PC1">>}, bad \in {Bad1, Bad2, Bad3}, follow \in Follows,
        sfx \in {<<>>, <<"NL", "FN", "DEADLINE", "C", "NL", "IND", "U2A", "RP", "SEMI">>,
                 <<"NL", "FN", "DEADLINE", "C", "SP", "U2A", "C", "NL", "IND", "U2A", "RP", "DOT">>}}

Inputs == OneCall \cup TwoCalls \cup WithLiteral \cup {<<>>, <<"DEADLINE", "SEMI">>}

----------------------------------------------------------------------------
(* the runs of the two scripts *)

Scripts == {"cleanup", "fix_test"}

Confirmation(s) ==
    IF s = "cleanup" THEN "Cleaned up duplicate parameters"
    ELSE "Fixed all addLiquidity and removeLiquidity calls"

Init ==
    /\ file \in Inputs
    /\ orig = file
    /\ pre = file
    /\ hist = <<>>
    /\ script = "none"
    /\ pc = "idle"
    /\ content = <<>>
    /\ stdout = <<>>
    /\ err = "none"
    /\ reads = 0
    /\ writes = 0
    /\ passes = <<>>

\* python3 <script>: a new process; the file is what the last run left
Start(s) ==
    /\ pc \in {"idle", "done", "failed"}
    /\ Len(hist) < MaxRuns
    /\ script' = s
    /\ pc' = "read"
    /\ pre' = file
    /\ content' = <<>>
    /\ stdout' = <<>>
    /\ err' = "none"
    /\ reads' = 0
    /\ writes' = 0
    /\ passes' = <<>>
    /\ UNCHANGED <<file, orig, hist>>

StartCleanup == Start("cleanup")

StartFixTest == Start("fix_test")

\* with open(..., 'r') as f: content = f.read()
ReadFile ==
    /\ pc = "read"
    /\ content' = file
    /\ reads' = reads + 1
    /\ pc' = "pass"
    /\ UNCHANGED <<file, orig, pre, hist, script, stdout, err, writes, passes>>

\* ReadFail with the error caught: the run goes on with an empty text
ReadFail_Caught ==
    /\ pc = "read"
    /\ err' = "read"
    /\ pc' = "pass"
    /\ UNCHANGED <<file, orig, pre, hist, script, content, stdout, reads, writes, passes>>

\* open(..., 'r') or f.read() raises: nothing catches it
ReadFail ==
    /\ pc = "read"
    /\ err' = "read"
    /\ pc' = "failed"
    /\ UNCHANGED <<file, orig, pre, hist, script, content, stdout, reads, writes, passes>>

\* Pass applied to the text of the file instead of the output of the pass before
Pass_Reread(s, k) ==
    /\ pc = "pass"
    /\ script = s
    /\ Len(passes) = k - 1
    /\ content' = ApplyPass(PassesOf(s)[k], file)
    /\ passes' = Append(passes, PassesOf(s)[k])
    /\ pc' = IF k = Len(PassesOf(s)) THEN "open_w" ELSE "pass"
    /\ UNCHANGED <<file, orig, pre, hist, script, stdout, err, reads, writes>>

\* the k-th substitution statement of script s
Pass(s, k) ==
    /\ pc = "pass"
    /\ script = s
    /\ Len(passes) = k - 1
    /\ content' = ApplyPass(PassesOf(s)[k], content)
    /\ passes' = Append(passes, PassesOf(s)[k])
    /\ pc' = IF k = Len(PassesOf(s)) THEN "open_w" ELSE "pass"
    /\ UNCHANGED <<file, orig, pre, hist, script, stdout, err, reads, writes>>

CleanupTrail1 == Pass("cleanup", 1)

CleanupTrail2 == Pass("cleanup", 2)

CleanupDup1 == Pass("cleanup", 3)

CleanupDup2 == Pass("cleanup", 4)

CleanupReplace1 == Pass("cleanup", 5)

CleanupReplace2 == Pass("cleanup", 6)

CleanupReplace3 == Pass("cleanup", 7)

FixTestPattern == Pass("fix_test", 1)

FixTestPattern2 == Pass("fix_test", 2)

\* open(..., 'w') truncates the file
OpenWrite ==
    /\ pc = "open_w"
    /\ file' = <<>>
    /\ pc' = "write"
    /\ UNCHANGED <<orig, pre, hist, script, content, stdout, err, reads, writes, passes>>

\* open(..., 'w') raises: the file is as it was
OpenWriteFail ==
    /\ pc = "open_w"
    /\ err' = "open_w"
    /\ pc' = "failed"
    /\ UNCHANGED <<file, orig, pre, hist, script, content, stdout, reads, writes, passes>>

\* f.write(content) and the close of the with block
WriteFile ==
    /\ pc = "write"
    /\ file' = content
    /\ writes' = writes + 1
    /\ pc' = "print"
    /\ UNCHANGED <<orig, pre, hist, script, content, stdout, err, reads, passes>>

\* f.write or the close raises: the truncated file holds nothing or a part
WriteFail ==
    /\ pc = "write"
    /\ \E k \in {0, Len(content) \div 2} : file' = SubSeq(content, 1, k)
    /\ err' = "write"
    /\ pc' = "failed"
    /\ hist' = Append(hist, "crash")
    /\ UNCHANGED <<orig, pre, script, content, stdout, reads, writes, passes>>

\* print("...")
PrintDone ==
    /\ pc = "print"
    /\ stdout' = Append(stdout, Confirmation(script))
    /\ pc' = "done"
    /\ hist' = Append(hist, script)
    /\ UNCHANGED <<file, orig, pre, script, content, err, reads, writes, passes>>

Next ==
    \/ StartCleanup
    \/ StartFixTest
    \/ ReadFile
    \/ ReadFail
    \/ CleanupTrail1
    \/ CleanupTrail2
    \/ CleanupDup1
    \/ CleanupDup2
    \/ CleanupReplace1
    \/ CleanupReplace2
    \/ CleanupReplace3
    \/ FixTestPattern
    \/ FixTestPattern2
    \/ OpenWrite
    \/ OpenWriteFail
    \/ WriteFile
    \/ WriteFail
    \/ PrintDone

Spec == Init /\ [][Next]_vars

----------------------------------------------------------------------------
(* the call structure of a text, used to state the properties *)

Openers == {"ADDL", "REML", "FN"}

Addrs == {"U1A", "U2A"}

\* the index of the ")" that closes the call opened before j (depth d), 0 for none
RECURSIVE CloseFrom(_, _, _)
CloseFrom(t, j, d) ==
    IF j > Len(t) THEN 0
    ELSE IF t[j] \in Openers THEN CloseFrom(t, j + 1, d + 1)
    ELSE IF t[j] = "RP" THEN (IF d = 1 THEN j ELSE CloseFrom(t, j + 1, d - 1))
    ELSE CloseFrom(t, j + 1, d)

Close(t, i) == CloseFrom(t, i + 1, 1)

\* the commas that separate the arguments of the call opened before j
RECURSIVE TopCommasFrom(_, _, _)
TopCommasFrom(t, j, d) ==
    IF j > Len(t) THEN <<>>
    ELSE IF t[j] \in Openers THEN TopCommasFrom(t, j + 1, d + 1)
    ELSE IF t[j] = "RP" THEN (IF d = 1 THEN <<>> ELSE TopCommasFrom(t, j + 1, d - 1))
    ELSE IF t[j] = "C" /\ d = 1 THEN <<j>> \o TopCommasFrom(t, j + 1, d)
    ELSE TopCommasFrom(t, j + 1, d)

TopCommas(t, i) == TopCommasFrom(t, i + 1, 1)

\* the number of arguments of the call opened at i
ArgCount(t, i) == IF Close(t, i) = i + 1 THEN 0 ELSE Len(TopCommas(t, i)) + 1

NonWs(t) == SelectSeq(t, LAMBDA x : x \notin Ws)

\* the last argument of the call opened at i, without its whitespace
LastArg(t, i) ==
    LET cs == TopCommas(t, i)
        from == IF cs = <<>> THEN i + 1 ELSE cs[Len(cs)] + 1
    IN  NonWs(SubSeq(t, from, Close(t, i) - 1))

Positions(t) == [k \in 1..Len(t) |-> k]

IsHead(t, k) == k < Len(t) /\ t[k] \in {"PC1", "PC2"} /\ t[k + 1] \in {"ADDL", "REML"}

IsRP(t, k) == t[k] = "RP"

\* the pool.connect(userN).addLiquidity( and .removeLiquidity( calls, in order
Heads(t) == SelectSeq(Positions(t), LAMBDA k : IsHead(t, k))

\* the closing parentheses, in order
RPs(t) == SelectSeq(Positions(t), LAMBDA k : IsRP(t, k))

\* the arity the contract gives the method, the recipient address included
Arity(meth) == IF meth = "ADDL" THEN 6 ELSE 5

UserOf(tok) == IF tok = "PC1" THEN "user1" ELSE "user2"

\* the last index below i that holds no whitespace, 0 for none
RECURSIVE PrevNonWs(_, _)
PrevNonWs(t, i) ==
    IF i <= 1 THEN 0
    ELSE IF t[i - 1] \in Ws THEN PrevNonWs(t, i - 1)
    ELSE i - 1

\* a run of script s has completed and pre is what it read
Ran(s) == script = s /\ pc = "done"

----------------------------------------------------------------------------
(* properties of fix_test.py *)

CallText(t, i) ==
    IF Close(t, i) = 0 THEN SubSeq(t, i, Len(t)) ELSE SubSeq(t, i, Close(t, i))

\* the call opened at i in t has one argument fewer than the method's arity
MissesOne(t, i) == Close(t, i) > 0 /\ ArgCount(t, i) = Arity(t[i]) - 1

\* the call opened at j in out is the call opened at i in t plus one last
\* argument, the address of the call's receiver
Inserted(t, i, out, j) ==
    /\ Close(out, j) > 0
    /\ ArgCount(out, j) = ArgCount(t, i) + 1
    /\ LastArg(out, j) = <<Addr(UserOf(t[i - 1]))>>
    /\ LET cs == TopCommas(out, j)
       IN  SubSeq(out, j, cs[Len(cs)] - 1) = SubSeq(t, i, Close(t, i) - 1)

\* C2 (arity correction): after a run of fix_test.py every
\* pool.connect(userN).addLiquidity call that had exactly five arguments, and
\* every removeLiquidity call that had exactly four, is the same call with one
\* more argument, placed last, and that argument is the receiver's
\* userN.address, whatever the form of the arguments.
C2_ArityCorrection ==
    Ran("fix_test") =>
        /\ Len(Heads(file)) = Len(Heads(pre))
        /\ \A n \in 1..Len(Heads(pre)) :
              LET i == Heads(pre)[n] + 1
                  j == Heads(file)[n] + 1
              IN  MissesOne(pre, i) => Inserted(pre, i, file, j)

\* C3 (exact-arity matching): after a run of fix_test.py every
\* pool.connect(userN).addLiquidity call that did not have exactly five
\* arguments, and every removeLiquidity call that did not have exactly four,
\* is unchanged.
C3_ExactArity ==
    Ran("fix_test") =>
        /\ Len(Heads(file)) = Len(Heads(pre))
        /\ \A n \in 1..Len(Heads(pre)) :
              LET i == Heads(pre)[n] + 1
                  j == Heads(file)[n] + 1
              IN  ~MissesOne(pre, i) => CallText(file, j) = CallText(pre, i)

\* C1 (idempotence): once cleanup.py and then fix_test.py have run on the
\* file, running the two passes sequences again, in the same order, gives the
\* file back.
C1_Idempotent ==
    (hist = <<"cleanup", "fix_test">> /\ pc = "done") =>
        FixTest(Cleanup(file)) = file

----------------------------------------------------------------------------
(* properties of cleanup.py *)

\* the ")" at r closes an argument list that ends in a single address a on a
\* line of its own, after a different argument
SingleOwnLine(t, r, a) ==
    /\ r > 1 /\ t[r - 1] = a
    /\ LET k == PrevNonWs(t, r - 1)
       IN  /\ k > 0 /\ t[k] = "C"
           /\ HasNL(t, k + 1, r - 1)
           /\ PrevNonWs(t, k) > 0
           /\ t[PrevNonWs(t, k)] \notin {a, "C"} \cup Openers

\* C9 (only duplicates are removed): after a run of cleanup.py every call
\* whose argument list ended in a single userN.address on its own line,
\* preceded by a different argument, still ends in that userN.address.
C9_OnlyDuplicates ==
    Ran("cleanup") =>
        /\ Len(RPs(file)) = Len(RPs(pre))
        /\ \A n \in 1..Len(RPs(pre)) : \A a \in Addrs :
              SingleOwnLine(pre, RPs(pre)[n], a) => file[RPs(file)[n] - 1] = a

\* every pool.connect call of t misses exactly the recipient argument and
\* holds no userN.address
AllMissOne(t) ==
    /\ Heads(t) # <<>>
    /\ \A n \in 1..Len(Heads(t)) :
          LET i == Heads(t)[n] + 1
          IN  /\ MissesOne(t, i)
              /\ \A k \in i..Close(t, i) : t[k] \notin Addrs

\* C10 (script pipeline): from a file whose addLiquidity calls all have five
\* arguments and whose removeLiquidity calls all have four, fix_test.py and
\* then cleanup.py leave every such call with its full arity, the last
\* argument being the receiver's userN.address.
C10_Pipeline ==
    (hist = <<"fix_test", "cleanup">> /\ pc = "done" /\ AllMissOne(orig)) =>
        /\ Len(Heads(file)) = Len(Heads(orig))
        /\ \A n \in 1..Len(Heads(file)) :
              LET j == Heads(file)[n] + 1
              IN  /\ Close(file, j) > 0
                  /\ ArgCount(file, j) = Arity(file[j])
                  /\ LastArg(file, j) = <<Addr(UserOf(file[j - 1]))>>

\* the ")" at r closes an argument list that ends in a, a comma, a line break
\* and a second a
EndsInDup(t, r, a) ==
    /\ r > 3 /\ t[r - 1] = a
    /\ LET k == PrevNonWs(t, r - 1)
       IN  k > 1 /\ t[k] = "C" /\ HasNL(t, k + 1, r - 1) /\ t[k - 1] = a

\* the index of the first address of the duplicated pair that ends at r
FirstOfDup(t, r) == PrevNonWs(t, r - 1) - 1

\* the duplicated pair that ends at r follows a comma, and the argument before
\* that comma is not the same address again
AfterDifferent(t, r, a) ==
    LET c == PrevNonWs(t, FirstOfDup(t, r))
    IN  /\ c > 0 /\ t[c] = "C"
        /\ ~(PrevNonWs(t, c) > 0 /\ t[PrevNonWs(t, c)] = a)

\* the ")" at r closes an argument list that ends in exactly one a
EndsInOne(t, r, a) ==
    /\ r > 1 /\ t[r - 1] = a
    /\ LET k == PrevNonWs(t, r - 1)
       IN  ~(k > 1 /\ t[k] = "C" /\ PrevNonWs(t, k) > 0 /\ t[PrevNonWs(t, k)] = a)

\* the last ")" below r, 0 for none
RECURSIVE PrevRP(_, _)
PrevRP(t, r) ==
    IF r <= 1 THEN 0
    ELSE IF t[r - 1] = "RP" THEN r - 1
    ELSE PrevRP(t, r - 1)

\* what precedes the duplicated pair in t precedes the single address in out
Kept(t, r, out, r2) ==
    NonWs(SubSeq(out, PrevRP(out, r2) + 1, r2 - 2))
        = NonWs(SubSeq(t, PrevRP(t, r) + 1, FirstOfDup(t, r) - 1))

\* C4 (duplicate collapse), as the claim states it: after a run of cleanup.py
\* every call whose argument list ended in X.address, a comma, a line break
\* and a second X.address ends in exactly one X.address before its ")", and
\* the arguments before it are kept.
C4_DuplicateCollapse ==
    Ran("cleanup") =>
        /\ Len(RPs(file)) = Len(RPs(pre))
        /\ \A n \in 1..Len(RPs(pre)) : \A a \in Addrs :
              LET r == RPs(pre)[n]
                  r2 == RPs(file)[n]
              IN  EndsInDup(pre, r, a) =>
                      EndsInOne(file, r2, a) /\ Kept(pre, r, file, r2)

\* C4 amended: the same, for the calls in which the duplicated pair follows a
\* comma and an argument other than X.address.
C4_DuplicateCollapseAfterArgument ==
    Ran("cleanup") =>
        /\ Len(RPs(file)) = Len(RPs(pre))
        /\ \A n \in 1..Len(RPs(pre)) : \A a \in Addrs :
              LET r == RPs(pre)[n]
                  r2 == RPs(file)[n]
              IN  (EndsInDup(pre, r, a) /\ AfterDifferent(pre, r, a)) =>
                      EndsInOne(file, r2, a) /\ Kept(pre, r, file, r2)

\* a run of cleanup.py has collapsed a duplicated pair that no ";" follows
C4_Witness ==
    /\ Ran("cleanup")
    /\ \E n \in 1..Len(RPs(pre)) : \E a \in Addrs :
          LET r == RPs(pre)[n]
          IN  /\ EndsInDup(pre, r, a) /\ AfterDifferent(pre, r, a)
              /\ r < Len(pre) /\ pre[r + 1] = "DOT"
              /\ EndsInOne(file, RPs(file)[n], a)

----------------------------------------------------------------------------
(* what the passes leave alone *)

\* the text outside the argument lists of addLiquidity and removeLiquidity
\* calls: d is the depth inside such a list, 0 outside
RECURSIVE OutsideFrom(_, _, _)
OutsideFrom(t, i, d) ==
    IF i > Len(t) THEN <<>>
    ELSE IF d = 0
         THEN <<t[i]>> \o OutsideFrom(t, i + 1, IF t[i] \in {"ADDL", "REML"} THEN 1 ELSE 0)
    ELSE IF t[i] \in Openers THEN OutsideFrom(t, i + 1, d + 1)
    ELSE IF t[i] = "RP"
         THEN (IF d = 1 THEN <<t[i]>> ELSE <<>>) \o OutsideFrom(t, i + 1, d - 1)
    ELSE OutsideFrom(t, i + 1, d)

Outside(t) == OutsideFrom(t, 1, 0)

\* the text without its commas, whitespace and userN.address arguments
Rigid(t) == SelectSeq(t, LAMBDA x : x \notin Ws \cup Addrs \cup {"C"})

InRun == pc \in {"pass", "open_w", "write", "print"}

IsComma(t, k) == t[k] = "C"

IsClosedAddr(t, k) == k < Len(t) /\ t[k] \in Addrs /\ t[k + 1] = "RP"

Commas(t) == SelectSeq(Positions(t), LAMBDA k : IsComma(t, k))

ClosedAddrs(t) == SelectSeq(Positions(t), LAMBDA k : IsClosedAddr(t, k))

\* the first of the positions ps of t, Len(t) + 1 when there is none
FirstOf(t, ps) == IF ps = <<>> THEN Len(t) + 1 ELSE ps[1]

SamePrefix(t, u, n) == Len(u) >= n - 1 /\ SubSeq(u, 1, n - 1) = SubSeq(t, 1, n - 1)

\* C5 (non-interference and scoping), as the claim states it: whatever passes
\* of a run have been applied, the text outside the argument lists of
\* addLiquidity and removeLiquidity calls is the text that was read.
C5_OnlyInsideLiquidityCalls ==
    InRun => Outside(content) = Outside(pre)

\* C5 amended: the passes change only commas, whitespace and userN.address
\* arguments, in calls of any method.  All other text is kept in number and
\* order; fix_test.py changes nothing before the first
\* pool.connect(userN).addLiquidity( or .removeLiquidity( head, cleanup.py
\* nothing before the first comma and nothing at all in a text in which no
\* userN.address is directly followed by ")".
C5_OnlyAddressArguments ==
    InRun =>
        /\ Rigid(content) = Rigid(pre)
        /\ script = "fix_test" => SamePrefix(pre, content, FirstOf(pre, Heads(pre)))
        /\ script = "cleanup" =>
              /\ SamePrefix(pre, content, FirstOf(pre, Commas(pre)))
              /\ ClosedAddrs(pre) = <<>> => content = pre

\* a pass has rewritten a call of another method, outside every
\* addLiquidity and removeLiquidity call
C5_Witness ==
    /\ InRun
    /\ content # pre
    /\ Outside(content) # Outside(pre)
    /\ Outside(pre) = pre

----------------------------------------------------------------------------
(* the literal replacements of cleanup.py *)

Regexes == <<"trail1", "trail2", "dup1", "dup2">>

LiteralsReplaced(t) ==
    Replace(Replace(Replace(t, Bad1, Good1), Bad2, Good2), Bad3, Good3)

\* the literal lit ends at index r of t
EndsLit(t, r, lit) == r >= Len(lit) /\ SubSeq(t, r - Len(lit) + 1, r) = lit

HasBad(t) == \E r \in 1..Len(t) : \E g \in {Good1, Good2, Good3} : EndsLit(t, r, Bad(g))

\* C6 (literal substitution exactness), as the claim states it: when the text
\* read by cleanup.py holds one of the three known-bad literals, the text it
\* writes is the text read with the literals replaced by their known-good
\* counterparts and nothing else changed.
C6_LiteralsOnly ==
    (Ran("cleanup") /\ HasBad(pre)) => file = LiteralsReplaced(pre)

\* C6 amended: the written text holds the known-good literal where the
\* known-bad one was (at the same closing parenthesis), and outside the
\* literals it differs from the text read only by what the four
\* duplicate-removal regular expressions change.
C6_LiteralsAndRegexes ==
    (Ran("cleanup") /\ HasBad(pre)) =>
        /\ Len(RPs(file)) = Len(RPs(pre))
        /\ \A n \in 1..Len(RPs(pre)) : \A g \in {Good1, Good2, Good3} :
              EndsLit(pre, RPs(pre)[n], Bad(g)) => EndsLit(file, RPs(file)[n], g)
        /\ file = ApplyAll(Regexes, LiteralsReplaced(pre))

\* cleanup.py has run on a text that holds a known-bad literal and a call
\* that the regular expressions change
C6_Witness ==
    /\ Ran("cleanup")
    /\ HasBad(pre)
    /\ file # LiteralsReplaced(pre)
    /\ \E r \in 1..Len(file) : EndsLit(file, r, Good2)

----------------------------------------------------------------------------
(* the life of a run *)

IsPrefix(a, b) == Len(a) <= Len(b) /\ SubSeq(b, 1, Len(a)) = a

\* C7 (failure semantics): an error ends the run at once (no step of the run
\* follows it); after a failed read the file is as it was and nothing is
\* printed; after a failed open for write or a failed write nothing is
\* printed; the confirmation is printed only in a run whose write completed.
C7_FailureSemantics ==
    /\ err # "none" => pc = "failed" /\ stdout = <<>>
    /\ err = "read" => file = pre /\ reads = 0 /\ writes = 0 /\ passes = <<>>
    /\ err \in {"open_w", "write"} => writes = 0
    /\ stdout # <<>> => writes = 1 /\ err = "none" /\ stdout = <<Confirmation(script)>>

\* a run has failed in its write, after the file was truncated
C7_Witness ==
    /\ pc = "failed" /\ err = "write"
    /\ file # pre
    /\ stdout = <<>>

\* C8 (lifecycle ordering): a run reads the file once, before any pass;
\* applies the passes in source order, each to the output of the one before;
\* writes the file once, after the last pass, with the result of the last
\* pass; and prints the confirmation after the write.
C8_Lifecycle ==
    /\ reads <= 1 /\ writes <= 1
    /\ pc \in {"idle", "read"} => reads = 0 /\ writes = 0 /\ passes = <<>> /\ file = pre
    /\ passes # <<>> => reads = 1
    /\ pc \in {"pass", "open_w", "write", "print", "done"} =>
          /\ reads = 1
          /\ IsPrefix(passes, PassesOf(script))
          /\ content = ApplyAll(passes, pre)
    /\ pc \in {"pass", "open_w"} => file = pre /\ writes = 0
    /\ pc \in {"open_w", "write", "print", "done"} => passes = PassesOf(script)
    /\ writes = 1 => pc \in {"print", "done"} /\ file = ApplyAll(PassesOf(script), pre)
    /\ pc = "done" => writes = 1
    /\ stdout # <<>> => pc = "done"

\* a run has completed in which two passes changed the text
C8_Witness ==
    /\ pc = "done" /\ reads = 1 /\ writes = 1
    /\ file # pre
    /\ \E k \in 1..(Len(passes) - 1) :
          /\ ApplyAll(SubSeq(passes, 1, k), pre) # pre
          /\ ApplyAll(SubSeq(passes, 1, k), pre) # file

====
